---- MODULE Spec2Model ----
(***************************************************************************)
(* Arduino Judge: the firmware of one board.  The model follows            *)
(* Arduino_Judge.ino (setup, initCommunication, loop, the button           *)
(* interrupts, updateScore, handleVictory, updateServo) and Microgames.ino *)
(* (runMicrogame and the microgame routines).  Arduino_Judge.h and the     *)
(* communication layer are not part of the sources at hand; what the model *)
(* needs from them (the enumerations, the point magnitudes, decideOnGame,  *)
(* communicateRandomNumbers, tryHandshake, determinePlayers,               *)
(* handleCommunicationError) is taken from the written specification.      *)
(***************************************************************************)
EXTENDS Integers, Sequences, FiniteSets, TLC

\* ------------------------------------------------------------------ bounds
MaxNumber == 2
MaxMillis == 1
MaxHist == 2
MaxServoArg == 200

\* ------------------------------------------------- enumerations and tables
\* GameID (Arduino_Judge.h); "UnknownGame" stands for any other value
KnownGames ==
  {"PiezoPitch", "PiezoRhythm", "LEDNumber", "LEDBrightest", "LEDFrequency", "LDRCover"}

GameIDs == KnownGames \cup {"UnknownGame"}

\* GameResult (Arduino_Judge.h); "OtherResult" stands for any other value
GameResults ==
  {"CorrectAttack", "WasCorrectlyAttacked", "IncorrectAttack", "WasIncorrectlyAttacked",
   "CorrectDodge", "WasCorrectlyDodged", "IncorrectDodge", "WasIncorrectlyDodged",
   "GameTied", "OtherResult"}

\* the magnitudes correctAttackPoints .. incorrectDodgePoints are configuration
PointChoices == {10, 20}

\* the microgame routines of Microgames.ino
Routines ==
  {"runPiezoPitch", "runPiezoRhythm", "runLEDNumber", "runLEDBrightest",
   "runLEDFrequency", "runLDRCover"}

NoRoutine == "none"

VARIABLES
  pc,                    \* position of the main program
  score,                 \* int score
  correctAttackPoints, incorrectAttackPoints, correctDodgePoints, incorrectDodgePoints,
  currentGame, myNumber, otherNumber,
  result,                \* GameResult result of loop(), argument of updateScore
  servoPos,              \* last value given to servo.write
  whiteLED, analogLED, fourBitLEDs, piezoOn,
  amPlayerTwo,
  fadeValue, isGoingUpwards, handshakeDone,      \* locals of initCommunication
  lowerButtonPressed, higherButtonPressed, millisAtButtonPress,
  lowerAttached, higherAttached,                 \* attachInterrupt / detachInterrupt
  millisAtGameStart,
  millisNow,             \* the value millis() returns
  \* history variables
  calls,                 \* the calls made by the current iteration of loop()
  fx,                    \* the effects of the current updateScore call
  prevScore,             \* score when the current updateScore call was entered
  hist,                  \* the results given to updateScore since score was fresh
  presses,               \* handler runs since enableInterrupts was last entered
  lastPress,             \* the handler that ran last: "none", "lower" or "higher"
  routine,               \* microgame routine invoked by the last runMicrogame
  servoArg, constrained, \* argument of the last updateServo, and after constrain
  ledShown,              \* pattern shown on the four-bit LEDs during the handshake jingle
  flashes, delayed       \* white LED flashes and total delay of flashHigherPlayersLED

pointVars == <<correctAttackPoints, incorrectAttackPoints, correctDodgePoints, incorrectDodgePoints>>
roundVars == <<currentGame, myNumber, otherNumber, millisAtGameStart, routine>>
ledVars == <<whiteLED, analogLED, fourBitLEDs, piezoOn>>
initVars == <<amPlayerTwo, fadeValue, isGoingUpwards, handshakeDone, ledShown>>
buttonVars == <<lowerButtonPressed, higherButtonPressed, millisAtButtonPress,
                lowerAttached, higherAttached, presses, lastPress>>
servoVars == <<servoPos, servoArg, constrained>>
scoreVars == <<score, result, fx, prevScore, hist>>
flashVars == <<flashes, delayed>>

vars == <<pc, pointVars, roundVars, ledVars, initVars, buttonVars, servoVars,
          scoreVars, flashVars, millisNow, calls>>

\* ------------------------------------------------------------ pure helpers
\* C integer division truncates toward zero
TruncDiv(a, b) ==
  IF a >= 0 THEN a \div b ELSE -((-a) \div b)

\* Arduino constrain(x, lo, hi)
constrain(x, lo, hi) ==
  IF x < lo THEN lo ELSE IF x > hi THEN hi ELSE x

\* Arduino map(x, in_min, in_max, out_min, out_max)
map(x, inMin, inMax, outMin, outMax) ==
  TruncDiv((x - inMin) * (outMax - outMin), inMax - inMin) + outMin

ScoreLimit == 80
ServoMin == 10
ServoMax == 170

\* updateServo, line 229
ServoConstrain(s) ==
  constrain(s, -ScoreLimit, ScoreLimit)

\* updateServo with the constrain of line 229 left out
ServoPosition_NoConstrain(s) ==
  map(s, -ScoreLimit, ScoreLimit, ServoMin, ServoMax)

\* updateServo, lines 229-231: the value given to servo.write
ServoPosition(s) ==
  map(ServoConstrain(s), -ScoreLimit, ScoreLimit, ServoMin, ServoMax)

\* the switch with WasIncorrectlyDodged paying the attack points
ScoreDelta_WrongConstant(r) ==
  CASE r = "CorrectAttack" -> correctAttackPoints
    [] r = "WasCorrectlyAttacked" -> -correctAttackPoints
    [] r = "IncorrectAttack" -> -incorrectAttackPoints
    [] r = "WasIncorrectlyAttacked" -> incorrectAttackPoints
    [] r = "CorrectDodge" -> correctDodgePoints
    [] r = "WasCorrectlyDodged" -> -correctDodgePoints
    [] r = "IncorrectDodge" -> -incorrectDodgePoints
    [] r = "WasIncorrectlyDodged" -> incorrectAttackPoints
    [] OTHER -> 0

\* the switch with WasCorrectlyAttacked not mirroring CorrectAttack
ScoreDelta_Unmirrored(r) ==
  CASE r = "CorrectAttack" -> correctAttackPoints
    [] r = "WasCorrectlyAttacked" -> -incorrectAttackPoints
    [] r = "IncorrectAttack" -> -incorrectAttackPoints
    [] r = "WasIncorrectlyAttacked" -> incorrectAttackPoints
    [] r = "CorrectDodge" -> correctDodgePoints
    [] r = "WasCorrectlyDodged" -> -correctDodgePoints
    [] r = "IncorrectDodge" -> -incorrectDodgePoints
    [] r = "WasIncorrectlyDodged" -> incorrectDodgePoints
    [] OTHER -> 0

\* updateScore, the switch of lines 167-203: the change of score
ScoreDelta(r) ==
  CASE r = "CorrectAttack" -> correctAttackPoints
    [] r = "WasCorrectlyAttacked" -> -correctAttackPoints
    [] r = "IncorrectAttack" -> -incorrectAttackPoints
    [] r = "WasIncorrectlyAttacked" -> incorrectAttackPoints
    [] r = "CorrectDodge" -> correctDodgePoints
    [] r = "WasCorrectlyDodged" -> -correctDodgePoints
    [] r = "IncorrectDodge" -> -incorrectDodgePoints
    [] r = "WasIncorrectlyDodged" -> incorrectDodgePoints
    [] OTHER -> 0

WinThreshold == 80

\* the check with > and < in place of >= and <=
VictoryCheck_Strict(s) ==
  IF s > WinThreshold THEN "win"
  ELSE IF s < -WinThreshold THEN "lose"
  ELSE "none"

\* the check with handleVictory(true) in both branches
VictoryCheck_LossAsWin(s) ==
  IF s >= WinThreshold THEN "win"
  ELSE IF s <= -WinThreshold THEN "win"
  ELSE "none"

\* the check without its else-if branch
VictoryCheck_WinOnly(s) ==
  IF s >= WinThreshold THEN "win"
  ELSE "none"

\* updateScore, lines 207-211: "win", "lose" or "none"
VictoryCheck(s) ==
  IF s >= WinThreshold THEN "win"
  ELSE IF s <= -WinThreshold THEN "lose"
  ELSE "none"

BoolToInt(b) == IF b THEN 1 ELSE 0

\* handleVictory handing didWin on to the sound effects
VictoryEffects_PassesDidWin(didWin) ==
  << <<"handleVictory", BoolToInt(didWin)>>,
     <<"playInstantOfVictorySFX", BoolToInt(didWin)>>,
     <<"whiteLED", 1>>,
     <<"playVictoryJingleSFX", BoolToInt(didWin)>>,
     <<"whiteLED", 0>>,
     <<"playGameOverSFX", 0>>,
     <<"score", 0>>,
     <<"servo", ServoPosition(0)>> >>

\* handleVictory, lines 214-225: its effects in order, as <<operation, argument>>
VictoryEffects(didWin) ==
  << <<"handleVictory", BoolToInt(didWin)>>,
     <<"playInstantOfVictorySFX", 1>>,
     <<"whiteLED", 1>>,
     <<"playVictoryJingleSFX", 1>>,
     <<"whiteLED", 0>>,
     <<"playGameOverSFX", 0>>,
     <<"score", 0>>,
     <<"servo", ServoPosition(0)>> >>

\* runMicrogame, the switch of lines 11-34: the routine each case calls
DispatchedRoutine(game) ==
  CASE game = "PiezoPitch" -> "runPiezoPitch"
    [] game = "PiezoRhythm" -> "runPiezoRhythm"
    [] game = "LEDNumber" -> "runPiezoRhythm"
    [] game = "LEDBrightest" -> "runLEDBrightest"
    [] game = "LEDFrequency" -> "runLEDFrequency"
    [] game = "LDRCover" -> "runLDRCover"
    [] OTHER -> NoRoutine

\* routines that compare the two numbers instead of tying
RoutineResult_Compares(r, mine, other) ==
  IF mine > other THEN "CorrectAttack"
  ELSE IF mine < other THEN "WasCorrectlyAttacked"
  ELSE "GameTied"

\* the microgame routines, lines 37-71: each returns GameTied
RoutineResult(r, mine, other) ==
  "GameTied"

\* fadeStatusLED without the tests of lines 71 and 78
FadeStep_NoZeroTest(f, up) ==
  IF up THEN <<(f * 2) % 256, TRUE>> ELSE <<f \div 2, FALSE>>

\* fadeStatusLED, lines 69-82, on a byte: the next <<fadeValue, isGoingUpwards>>
FadeStep(f, up) ==
  IF up
  THEN IF (f * 2) % 256 = 0 THEN <<255, FALSE>> ELSE <<(f * 2) % 256, TRUE>>
  ELSE IF f \div 2 = 0 THEN <<1, TRUE>> ELSE <<f \div 2, FALSE>>

\* updateServo(s), lines 227-233, as a change of the servo state
UpdateServo(s) ==
  /\ servoArg' = s
  /\ constrained' = ServoConstrain(s)
  /\ servoPos' = ServoPosition(s)

\* -------------------------------------------------------------------- Init
InitPoints ==
  /\ correctAttackPoints \in PointChoices
  /\ incorrectAttackPoints \in PointChoices
  /\ correctDodgePoints \in PointChoices
  /\ incorrectDodgePoints \in PointChoices

InitCommon ==
  /\ InitPoints
  /\ score = 0
  /\ currentGame = "PiezoPitch"
  /\ myNumber = 0
  /\ otherNumber = 0
  /\ result = "GameTied"
  /\ servoPos = ServoPosition(0)
  /\ whiteLED = FALSE
  /\ analogLED = 0
  /\ fourBitLEDs = 0
  /\ piezoOn = FALSE
  /\ amPlayerTwo = FALSE
  /\ fadeValue = 1
  /\ isGoingUpwards = TRUE
  /\ handshakeDone = FALSE
  /\ lowerButtonPressed = FALSE
  /\ higherButtonPressed = FALSE
  /\ millisAtButtonPress = 0
  /\ lowerAttached = FALSE
  /\ higherAttached = FALSE
  /\ millisAtGameStart = 0
  /\ millisNow = 0
  /\ calls = <<>>
  /\ fx = <<>>
  /\ prevScore = 0
  /\ hist = <<>>
  /\ presses = 0
  /\ lastPress = "none"
  /\ routine = NoRoutine
  /\ servoArg = 0
  /\ constrained = 0
  /\ ledShown = 0
  /\ flashes = 0
  /\ delayed = 0

\* the board after reset, about to run setup()
Init ==
  /\ InitCommon
  /\ pc = "setup"

\* ------------------------------------------------------------------- clock
\* millis() advances
Tick ==
  /\ millisNow < MaxMillis
  /\ millisNow' = millisNow + 1
  /\ UNCHANGED <<pc, pointVars, roundVars, ledVars, initVars, buttonVars, servoVars,
                 scoreVars, flashVars, calls>>

\* ------------------------------------------------------ setup, lines 16-36
Setup ==
  /\ pc = "setup"
  /\ UpdateServo(0)
  /\ fadeValue' = 1
  /\ isGoingUpwards' = TRUE
  /\ handshakeDone' = FALSE
  /\ pc' = "init_fade"
  /\ UNCHANGED <<pointVars, roundVars, ledVars, amPlayerTwo, ledShown, buttonVars,
                 scoreVars, flashVars, millisNow, calls>>

\* ---------------------------------------- initCommunication, lines 38-63
\* line 47: fadeStatusLED(&fadeValue, &isGoingUpwards)
FadeStatusLED ==
  /\ pc = "init_fade"
  /\ analogLED' = fadeValue
  /\ fadeValue' = FadeStep(fadeValue, isGoingUpwards)[1]
  /\ isGoingUpwards' = FadeStep(fadeValue, isGoingUpwards)[2]
  /\ pc' = "init_handshake"
  /\ UNCHANGED <<pointVars, roundVars, whiteLED, fourBitLEDs, piezoOn, amPlayerTwo,
                 handshakeDone, ledShown, buttonVars, servoVars, scoreVars, flashVars,
                 millisNow, calls>>

\* the loop of lines 46-50 left after one try, whatever tryHandshake returned
TryHandshake_LeavesLoop ==
  /\ pc = "init_handshake"
  /\ \E ok \in BOOLEAN :
       /\ handshakeDone' = ok
       /\ pc' = "init_players"
  /\ UNCHANGED <<pointVars, roundVars, ledVars, amPlayerTwo, fadeValue, isGoingUpwards,
                 ledShown, buttonVars, servoVars, scoreVars, flashVars, millisNow, calls>>

\* line 49 and the loop test of line 46
TryHandshake ==
  /\ pc = "init_handshake"
  /\ \E ok \in BOOLEAN :
       /\ handshakeDone' = ok
       /\ pc' = IF ok THEN "init_players" ELSE "init_fade"
  /\ UNCHANGED <<pointVars, roundVars, ledVars, amPlayerTwo, fadeValue, isGoingUpwards,
                 ledShown, buttonVars, servoVars, scoreVars, flashVars, millisNow, calls>>

\* lines 53-58: determinePlayers, status LED off, show the player pattern
DeterminePlayers ==
  /\ pc = "init_players"
  /\ \E two \in BOOLEAN :
       /\ amPlayerTwo' = two
       /\ fourBitLEDs' = IF ~two THEN 12 ELSE 3
       /\ ledShown' = IF ~two THEN 12 ELSE 3
  /\ analogLED' = 0
  /\ pc' = "init_finish"
  /\ UNCHANGED <<pointVars, roundVars, whiteLED, piezoOn, fadeValue, isGoingUpwards,
                 handshakeDone, buttonVars, servoVars, scoreVars, flashVars, millisNow,
                 calls>>

\* lines 58-63: after the jingle clear the pattern, reset the score and return
\* (the locals fadeValue and isGoingUpwards end with the call)
InitFinish ==
  /\ pc = "init_finish"
  /\ fourBitLEDs' = 0
  /\ score' = 0
  /\ fadeValue' = 1
  /\ isGoingUpwards' = TRUE
  /\ pc' = "loop_decide"
  /\ UNCHANGED <<pointVars, roundVars, whiteLED, analogLED, piezoOn, amPlayerTwo,
                 handshakeDone, ledShown, buttonVars, servoVars, result, fx, prevScore,
                 hist, flashVars, millisNow, calls>>

\* ------------------------------------------------------- loop, lines 85-102
\* line 87: currentGame = decideOnGame(currentGame); any GameID may come back
DecideOnGame ==
  /\ pc = "loop_decide"
  /\ currentGame' \in GameIDs
  /\ calls' = <<"decideOnGame">>
  /\ routine' = NoRoutine
  /\ flashes' = 0
  /\ delayed' = 0
  /\ pc' = "loop_numbers"
  /\ UNCHANGED <<pointVars, myNumber, otherNumber, millisAtGameStart, ledVars,
                 initVars, buttonVars, servoVars, scoreVars, millisNow>>

\* line 88: communicateRandomNumbers(gameMaxNumbers[currentGame], &myNumber, &otherNumber)
CommunicateRandomNumbers ==
  /\ pc = "loop_numbers"
  /\ myNumber' \in 0..MaxNumber
  /\ otherNumber' \in 0..MaxNumber
  /\ calls' = Append(calls, "communicateRandomNumbers")
  /\ pc' = "loop_countdown"
  /\ UNCHANGED <<pointVars, currentGame, millisAtGameStart, routine, ledVars, initVars,
                 buttonVars, servoVars, scoreVars, flashVars, millisNow>>

\* lines 89-92: the count-in; the sound effect may leave the piezo sounding
PlayCountdown ==
  /\ pc = "loop_countdown"
  /\ piezoOn' \in BOOLEAN
  /\ calls' = calls \o <<"getSharedRandomNumber", "playCountdownSFX">>
  /\ pc' = "loop_run"
  /\ UNCHANGED <<pointVars, roundVars, whiteLED, analogLED, fourBitLEDs, initVars,
                 buttonVars, servoVars, scoreVars, flashVars, millisNow>>

\* handleCommunicationError: does not return to its caller
CommunicationErrorPc == "commError"

\* runMicrogame whose default case returns some GameResult to loop()
RunMicrogame_Fallthrough ==
  /\ pc = "loop_run"
  /\ millisAtGameStart' = millisNow
  /\ routine' = DispatchedRoutine(currentGame)
  /\ IF DispatchedRoutine(currentGame) # NoRoutine
     THEN /\ result' = RoutineResult(DispatchedRoutine(currentGame), myNumber, otherNumber)
          /\ calls' = Append(calls, "runMicrogame")
     ELSE /\ result' \in GameResults
          /\ calls' = calls \o <<"runMicrogame", "handleCommunicationError">>
  /\ pc' = "loop_clear"
  /\ UNCHANGED <<pointVars, currentGame, myNumber, otherNumber, ledVars, initVars,
                 buttonVars, servoVars, score, fx, prevScore, hist, flashVars, millisNow>>

\* line 93 and runMicrogame, Microgames.ino lines 8-35
RunMicrogame ==
  /\ pc = "loop_run"
  /\ millisAtGameStart' = millisNow
  /\ routine' = DispatchedRoutine(currentGame)
  /\ IF DispatchedRoutine(currentGame) # NoRoutine
     THEN /\ result' = RoutineResult(DispatchedRoutine(currentGame), myNumber, otherNumber)
          /\ calls' = Append(calls, "runMicrogame")
          /\ pc' = "loop_clear"
     ELSE /\ result' = result
          /\ calls' = calls \o <<"runMicrogame", "handleCommunicationError">>
          /\ pc' = CommunicationErrorPc
  /\ UNCHANGED <<pointVars, currentGame, myNumber, otherNumber, ledVars, initVars,
                 buttonVars, servoVars, score, fx, prevScore, hist, flashVars, millisNow>>

\* loop() going from the clearing straight to flashHigherPlayersLED
ClearOutputs_SkipScore ==
  /\ pc = "loop_clear"
  /\ fourBitLEDs' = 0
  /\ whiteLED' = FALSE
  /\ analogLED' = 0
  /\ piezoOn' = FALSE
  /\ calls' = calls \o <<"setAllLEDs", "noTone">>
  /\ pc' = "loop_flash"
  /\ UNCHANGED <<pointVars, roundVars, initVars, buttonVars, servoVars, scoreVars,
                 flashVars, millisNow>>

\* lines 96-97: setAllLEDs(LOW); noTone(piezo)
ClearOutputs ==
  /\ pc = "loop_clear"
  /\ fourBitLEDs' = 0
  /\ whiteLED' = FALSE
  /\ analogLED' = 0
  /\ piezoOn' = FALSE
  /\ calls' = calls \o <<"setAllLEDs", "noTone">>
  /\ pc' = "score_switch"
  /\ UNCHANGED <<pointVars, roundVars, initVars, buttonVars, servoVars, scoreVars,
                 flashVars, millisNow>>

\* ------------------------------------------------ updateScore, lines 163-212
Overflow == <<"more">>

Record(h, r) ==
  IF h # Overflow /\ Len(h) < MaxHist THEN Append(h, r) ELSE Overflow

\* lines 167-203: the switch
UpdateScoreSwitch ==
  /\ pc = "score_switch"
  /\ prevScore' = score
  /\ score' = score + ScoreDelta(result)
  /\ fx' = <<>>
  /\ hist' = Record(hist, result)
  /\ calls' = Append(calls, "updateScore")
  /\ pc' = "score_servo"
  /\ UNCHANGED <<pointVars, roundVars, ledVars, initVars, buttonVars, servoVars, result,
                 flashVars, millisNow>>

\* updateScore moving the servo only when no threshold is reached
UpdateScoreServo_SkipAtThreshold ==
  /\ pc = "score_servo"
  /\ IF VictoryCheck(score) = "none"
     THEN /\ UpdateServo(score)
          /\ fx' = Append(fx, <<"servo", ServoPosition(score)>>)
     ELSE UNCHANGED <<servoVars, fx>>
  /\ calls' = Append(calls, "updateServo")
  /\ pc' = "score_check"
  /\ UNCHANGED <<pointVars, roundVars, ledVars, initVars, buttonVars, score, result,
                 prevScore, hist, flashVars, millisNow>>

\* line 205 and updateServo, lines 227-233
UpdateScoreServo ==
  /\ pc = "score_servo"
  /\ UpdateServo(score)
  /\ fx' = Append(fx, <<"servo", ServoPosition(score)>>)
  /\ calls' = Append(calls, "updateServo")
  /\ pc' = "score_check"
  /\ UNCHANGED <<pointVars, roundVars, ledVars, initVars, buttonVars, score, result,
                 prevScore, hist, flashVars, millisNow>>

\* lines 207-211 and handleVictory, lines 214-225; returns to next
UpdateScoreVictory(next) ==
  /\ pc = "score_check"
  /\ IF VictoryCheck(score) = "none"
     THEN /\ calls' = Append(calls, "victoryCheck")
          /\ UNCHANGED <<whiteLED, score, servoVars, fx, hist>>
     ELSE /\ calls' = calls \o <<"victoryCheck", "handleVictory">>
          /\ fx' = fx \o VictoryEffects(VictoryCheck(score) = "win")
          /\ whiteLED' = FALSE
          /\ score' = 0
          /\ UpdateServo(0)
          /\ hist' = <<>>
  /\ pc' = next
  /\ UNCHANGED <<pointVars, roundVars, analogLED, fourBitLEDs, piezoOn, initVars,
                 buttonVars, result, prevScore, flashVars, millisNow>>

\* updateScore returning to loop(), line 100
LoopUpdateScoreVictory ==
  UpdateScoreVictory("loop_flash")

\* flashHigherPlayersLED comparing with > in place of >=
FlashCount_Strict(mine, other) ==
  IF mine > other THEN 3 ELSE 0

\* flashHigherPlayersLED, lines 151-160: the HIGH/LOW cycles of the white LED
FlashCount(mine, other) ==
  IF mine >= other THEN 3 ELSE 0

\* flashHigherPlayersLED, lines 151-160: the sum of its delays in milliseconds
FlashDelay(mine, other) ==
  IF mine >= other THEN 3 * (250 + 250) ELSE 500 * 3

\* ------------------------------------ flashHigherPlayersLED, lines 148-161
FlashHigherPlayersLED ==
  /\ pc = "loop_flash"
  /\ flashes' = FlashCount(myNumber, otherNumber)
  /\ delayed' = FlashDelay(myNumber, otherNumber)
  /\ whiteLED' = (IF FlashCount(myNumber, otherNumber) > 0 THEN FALSE ELSE whiteLED)
  /\ calls' = Append(calls, "flashHigherPlayersLED")
  /\ pc' = "loop_decide"
  /\ UNCHANGED <<pointVars, roundVars, analogLED, fourBitLEDs, piezoOn, initVars,
                 buttonVars, servoVars, scoreVars, millisNow>>

\* --------------------------------------------------- the firmware as it is
Next ==
  \/ Tick
  \/ Setup
  \/ FadeStatusLED
  \/ TryHandshake
  \/ DeterminePlayers
  \/ InitFinish
  \/ DecideOnGame
  \/ CommunicateRandomNumbers
  \/ PlayCountdown
  \/ RunMicrogame
  \/ ClearOutputs
  \/ UpdateScoreSwitch
  \/ UpdateScoreServo
  \/ LoopUpdateScoreVictory
  \/ FlashHigherPlayersLED

Spec == Init /\ [][Next]_vars

\* ------------------------------------ updateScore called with any result
InitScore ==
  /\ InitCommon
  /\ pc = "call"

\* a caller hands updateScore a GameResult
CallUpdateScore ==
  /\ pc = "call"
  /\ result' \in GameResults
  /\ calls' = <<>>
  /\ pc' = "score_switch"
  /\ UNCHANGED <<pointVars, roundVars, ledVars, initVars, buttonVars, servoVars, score,
                 fx, prevScore, hist, flashVars, millisNow>>

\* updateScore returning to that caller
CallerUpdateScoreVictory ==
  UpdateScoreVictory("call")

NextScore ==
  \/ CallUpdateScore
  \/ UpdateScoreSwitch
  \/ UpdateScoreServo
  \/ CallerUpdateScoreVictory

SpecScore == InitScore /\ [][NextScore]_vars

\* ------------------------------------- updateServo called with any score
InitServo ==
  /\ InitCommon
  /\ pc = "servo_call"

CallUpdateServo ==
  /\ pc = "servo_call"
  /\ \E s \in (-MaxServoArg)..MaxServoArg : UpdateServo(s)
  /\ pc' = "servo_done"
  /\ UNCHANGED <<pointVars, roundVars, ledVars, initVars, buttonVars, scoreVars,
                 flashVars, millisNow, calls>>

ReturnUpdateServo ==
  /\ pc = "servo_done"
  /\ pc' = "servo_call"
  /\ UNCHANGED <<pointVars, roundVars, ledVars, initVars, buttonVars, servoVars,
                 scoreVars, flashVars, millisNow, calls>>

NextServo ==
  \/ CallUpdateServo
  \/ ReturnUpdateServo

SpecServo == InitServo /\ [][NextServo]_vars

\* ------------------------------------ the button interrupts, lines 108-130
\* disableInterrupts, lines 127-130, run inside a handler (handlers are not preempted)
DisableInterrupts ==
  /\ lowerAttached' = FALSE
  /\ higherAttached' = FALSE

\* the lower handler also lowering the score
LowerButtonPressedInterrupt_WritesScore ==
  /\ lowerAttached
  /\ lowerButtonPressed' = TRUE
  /\ higherButtonPressed' = FALSE
  /\ millisAtButtonPress' = millisNow
  /\ DisableInterrupts
  /\ presses' = presses + 1
  /\ lastPress' = "lower"
  /\ score' = score - 1
  /\ UNCHANGED <<pc, pointVars, roundVars, ledVars, initVars, servoVars, result, fx,
                 prevScore, hist, flashVars, millisNow, calls>>

\* lines 108-113; runs when the lower button's interrupt is attached and it falls
LowerButtonPressedInterrupt ==
  /\ lowerAttached
  /\ lowerButtonPressed' = TRUE
  /\ higherButtonPressed' = FALSE
  /\ millisAtButtonPress' = millisNow
  /\ DisableInterrupts
  /\ presses' = presses + 1
  /\ lastPress' = "lower"
  /\ UNCHANGED <<pc, pointVars, roundVars, ledVars, initVars, servoVars, scoreVars,
                 flashVars, millisNow, calls>>

\* the higher handler without line 117
HigherButtonPressedInterrupt_KeepsLower ==
  /\ higherAttached
  /\ higherButtonPressed' = TRUE
  /\ lowerButtonPressed' = lowerButtonPressed
  /\ millisAtButtonPress' = millisNow
  /\ DisableInterrupts
  /\ presses' = presses + 1
  /\ lastPress' = "higher"
  /\ UNCHANGED <<pc, pointVars, roundVars, ledVars, initVars, servoVars, scoreVars,
                 flashVars, millisNow, calls>>

\* lines 115-120
HigherButtonPressedInterrupt ==
  /\ higherAttached
  /\ higherButtonPressed' = TRUE
  /\ lowerButtonPressed' = FALSE
  /\ millisAtButtonPress' = millisNow
  /\ DisableInterrupts
  /\ presses' = presses + 1
  /\ lastPress' = "higher"
  /\ UNCHANGED <<pc, pointVars, roundVars, ledVars, initVars, servoVars, scoreVars,
                 flashVars, millisNow, calls>>

\* enableInterrupts, line 123: the main program attaches the lower button's handler
EnableInterruptsLower ==
  /\ pc = "buttons"
  /\ lowerAttached' = TRUE
  /\ presses' = 0
  /\ pc' = "enable_higher"
  /\ UNCHANGED <<pointVars, roundVars, ledVars, initVars, lowerButtonPressed,
                 higherButtonPressed, millisAtButtonPress, higherAttached, lastPress,
                 servoVars, scoreVars, flashVars, millisNow, calls>>

\* enableInterrupts, line 124: then the higher button's handler
EnableInterruptsHigher ==
  /\ pc = "enable_higher"
  /\ higherAttached' = TRUE
  /\ pc' = "buttons"
  /\ UNCHANGED <<pointVars, roundVars, ledVars, initVars, lowerButtonPressed,
                 higherButtonPressed, millisAtButtonPress, lowerAttached, presses,
                 lastPress, servoVars, scoreVars, flashVars, millisNow, calls>>

InitButtons ==
  /\ InitCommon
  /\ pc = "buttons"

NextButtons ==
  \/ Tick
  \/ EnableInterruptsLower
  \/ EnableInterruptsHigher
  \/ LowerButtonPressedInterrupt
  \/ HigherButtonPressedInterrupt

SpecButtons == InitButtons /\ [][NextButtons]_vars

\* ------------------------- loop() with the button interrupts in use
\* No function of the two source files calls enableInterrupts; the microgames
\* are its callers-to-be.  Here a call of it (lines 122-125) may precede
\* runMicrogame, so that the handlers can preempt loop() at any later point.
LoopEnableInterruptsLower ==
  /\ pc = "loop_run"
  /\ lowerAttached' = TRUE
  /\ presses' = 0
  /\ pc' = "loop_enable_higher"
  /\ UNCHANGED <<pointVars, roundVars, ledVars, initVars, lowerButtonPressed,
                 higherButtonPressed, millisAtButtonPress, higherAttached, lastPress,
                 servoVars, scoreVars, flashVars, millisNow, calls>>

LoopEnableInterruptsHigher ==
  /\ pc = "loop_enable_higher"
  /\ higherAttached' = TRUE
  /\ pc' = "loop_run"
  /\ UNCHANGED <<pointVars, roundVars, ledVars, initVars, lowerButtonPressed,
                 higherButtonPressed, millisAtButtonPress, lowerAttached, presses,
                 lastPress, servoVars, scoreVars, flashVars, millisNow, calls>>

NextPreempt ==
  \/ Next
  \/ LoopEnableInterruptsLower
  \/ LoopEnableInterruptsHigher
  \/ LowerButtonPressedInterrupt
  \/ HigherButtonPressedInterrupt

\* the stubs tie every round, so the point magnitudes play no part here: one choice
InitPreempt ==
  /\ Init
  /\ pointVars = <<10, 20, 20, 10>>

SpecPreempt == InitPreempt /\ [][NextPreempt]_vars

\* ================================================================== claims
Range(q) == {q[i] : i \in 1..Len(q)}

IsPrefix(a, b) == Len(a) <= Len(b) /\ a = SubSeq(b, 1, Len(a))

Returned == pc = "call" /\ calls # <<>>

Victories(f) == SelectSeq(f, LAMBDA e : e[1] = "handleVictory")

\* the table of the score deltas as the specification states it
C1_Table ==
  [r \in GameResults |->
     CASE r = "CorrectAttack" -> correctAttackPoints
       [] r = "WasCorrectlyAttacked" -> 0 - correctAttackPoints
       [] r = "IncorrectAttack" -> 0 - incorrectAttackPoints
       [] r = "WasIncorrectlyAttacked" -> incorrectAttackPoints
       [] r = "CorrectDodge" -> correctDodgePoints
       [] r = "WasCorrectlyDodged" -> 0 - correctDodgePoints
       [] r = "IncorrectDodge" -> 0 - incorrectDodgePoints
       [] r = "WasIncorrectlyDodged" -> incorrectDodgePoints
       [] r = "GameTied" -> 0
       [] r = "OtherResult" -> 0]

\* C1: right after the switch of updateScore, score is the score at entry plus
\* the table's delta for the outcome given (zero for a tie or any other value);
\* from 0, CorrectAttack gives +correctAttackPoints and WasIncorrectlyDodged
\* gives +incorrectDodgePoints.
C1_DeltaApplied ==
  pc = "score_servo" =>
    /\ score = prevScore + C1_Table[result]
    /\ (prevScore = 0 /\ result = "CorrectAttack") => score = correctAttackPoints
    /\ (prevScore = 0 /\ result = "WasIncorrectlyDodged") => score = incorrectDodgePoints

C1_Witness ==
  /\ pc = "score_servo"
  /\ prevScore = 0
  /\ result = "WasIncorrectlyDodged"
  /\ score = incorrectDodgePoints
  /\ incorrectDodgePoints # incorrectAttackPoints

C2_Pairs ==
  { <<"CorrectAttack", "WasCorrectlyAttacked">>,
    <<"WasIncorrectlyAttacked", "IncorrectAttack">>,
    <<"CorrectDodge", "WasCorrectlyDodged">>,
    <<"WasIncorrectlyDodged", "IncorrectDodge">> }

\* C2: when updateScore has been called on a fresh score of 0 with the positive
\* and then the negative member of a mirrored pair, score is 0 again.
C2_MirrorSymmetry ==
  (pc = "call" /\ hist \in C2_Pairs) => score = 0

C2_Witness ==
  /\ pc = "call"
  /\ hist = <<"CorrectAttack", "WasCorrectlyAttacked">>
  /\ correctAttackPoints # incorrectAttackPoints
  /\ prevScore = correctAttackPoints
  /\ score = 0

\* C3: for every score in [-200, 200] updateServo constrains the value to
\* [-80, 80] before the remapping and writes a position in [10, 170]: 10 for
\* -80 and below, 90 for 0, 170 for 80 and above.
C3_ServoRange ==
  (pc = "servo_done" /\ servoArg \in -200..200) =>
    /\ constrained \in -80..80
    /\ constrained = (IF servoArg < -80 THEN -80 ELSE IF servoArg > 80 THEN 80 ELSE servoArg)
    /\ servoPos \in 10..170
    /\ servoArg <= -80 => servoPos = 10
    /\ servoArg = 0 => servoPos = 90
    /\ servoArg >= 80 => servoPos = 170

C3_Witness ==
  /\ pc = "servo_done"
  /\ servoArg = 200
  /\ constrained = 80
  /\ servoPos = 170

\* C4: the updateScore call that takes the accumulated score from below 80 to
\* 80 or more calls handleVictory exactly once, with didWin = true, and
\* returns with score 0.
C4_WinOnce ==
  (Returned /\ prevScore < 80 /\ prevScore + C1_Table[result] >= 80) =>
    /\ Victories(fx) = << <<"handleVictory", 1>> >>
    /\ score = 0

C4_Witness ==
  /\ Returned
  /\ prevScore < 80
  /\ prevScore + C1_Table[result] = 80
  /\ Len(Victories(fx)) = 1
  /\ score = 0

\* C5: the updateScore call that takes the accumulated score from above -80 to
\* -80 or less calls handleVictory exactly once, with didWin = false, and
\* returns with score 0; no updateScore call makes more than one handleVictory
\* call.
C5_LoseOnce ==
  /\ (Returned /\ prevScore > -80 /\ prevScore + C1_Table[result] <= -80) =>
       /\ Victories(fx) = << <<"handleVictory", 0>> >>
       /\ score = 0
  /\ Len(Victories(fx)) <= 1

C5_Witness ==
  /\ Returned
  /\ prevScore > -80
  /\ prevScore + C1_Table[result] = -80
  /\ Victories(fx) = << <<"handleVictory", 0>> >>
  /\ score = 0

\* C6: when runMicrogame is given an unrecognized Round Identifier,
\* handleCommunicationError is called, the round does not go on to
\* updateScore, and score stays as it was.
C6_UnknownGameStops ==
  /\ []((currentGame \notin KnownGames /\ "runMicrogame" \in Range(calls)) =>
          /\ pc = "commError"
          /\ "handleCommunicationError" \in Range(calls)
          /\ "updateScore" \notin Range(calls))
  /\ [][(currentGame \notin KnownGames /\ pc \in {"loop_run", "commError"}) =>
          (score' = score /\ pc' \in {pc, "commError"})]_vars

C6_Witness ==
  /\ pc = "commError"
  /\ currentGame \notin KnownGames
  /\ "handleCommunicationError" \in Range(calls)

\* the routine the specification assigns to each Round Identifier
C7_Routine ==
  [g \in KnownGames |->
     CASE g = "PiezoPitch" -> "runPiezoPitch"
       [] g = "PiezoRhythm" -> "runPiezoRhythm"
       [] g = "LEDNumber" -> "runLEDNumber"
       [] g = "LEDBrightest" -> "runLEDBrightest"
       [] g = "LEDFrequency" -> "runLEDFrequency"
       [] g = "LDRCover" -> "runLDRCover"]

\* C7: for each of the six Round Identifiers runMicrogame invokes the routine
\* of that identifier and returns its result unchanged.
C7_PureSelection ==
  pc = "loop_clear" =>
    /\ routine = C7_Routine[currentGame]
    /\ result = RoutineResult(routine, myNumber, otherNumber)

C8_Order ==
  <<"decideOnGame", "communicateRandomNumbers", "runMicrogame", "setAllLEDs", "noTone",
    "updateScore", "updateServo", "victoryCheck", "flashHigherPlayersLED">>

C8_Listed(q) == SelectSeq(q, LAMBDA c : c \in Range(C8_Order))

\* C8: an iteration of loop calls decideOnGame, communicateRandomNumbers,
\* runMicrogame, the clearing of the outputs, updateScore (switch, servo,
\* victory check) and flashHigherPlayersLED in this order, each once; the
\* outputs are off when updateScore starts.
C8_RoundOrder ==
  /\ IsPrefix(C8_Listed(calls), C8_Order)
  /\ (pc = "loop_decide" /\ calls # <<>>) => C8_Listed(calls) = C8_Order
  /\ pc = "score_switch" =>
       (fourBitLEDs = 0 /\ ~whiteLED /\ analogLED = 0 /\ ~piezoOn)

C8_Witness ==
  /\ pc = "loop_decide"
  /\ C8_Listed(calls) = C8_Order
  /\ currentGame = "LDRCover"

\* the position the specification gives for a score
C9_Position(s) ==
  IF s <= -80 THEN 10 ELSE IF s >= 80 THEN 170 ELSE s + 90

\* C9: every updateScore call first writes the servo position of the updated
\* score, then checks for victory; on a victory the last effects are the reset
\* of score and a servo write of 90.  From 70, CorrectAttack worth 20 writes
\* 170, declares the local side the winner and leaves score 0.
C9_DisplayCommitted ==
  /\ pc = "score_check" =>
       (fx = << <<"servo", C9_Position(score)>> >> /\ servoPos = C9_Position(score))
  /\ Returned =>
       /\ SubSeq(calls, 1, 3) = <<"updateScore", "updateServo", "victoryCheck">>
       /\ fx[1] = <<"servo", C9_Position(prevScore + C1_Table[result])>>
       /\ IF prevScore + C1_Table[result] >= 80 \/ prevScore + C1_Table[result] <= -80
          THEN /\ fx[2][1] = "handleVictory"
               /\ fx[Len(fx) - 1] = <<"score", 0>>
               /\ fx[Len(fx)] = <<"servo", 90>>
               /\ score = 0
               /\ servoPos = 90
          ELSE /\ Len(fx) = 1
               /\ servoPos = C9_Position(score)
       /\ (prevScore = 70 /\ result = "CorrectAttack" /\ correctAttackPoints = 20) =>
            (fx[1] = <<"servo", 170>> /\ fx[2] = <<"handleVictory", 1>> /\ score = 0)

C9_Witness ==
  /\ Returned
  /\ prevScore = 70
  /\ result = "CorrectAttack"
  /\ correctAttackPoints = 20
  /\ fx[1] = <<"servo", 170>>
  /\ score = 0

\* C10: once a button handler has run, both interrupts stay detached and no
\* handler runs again until enableInterrupts is called: at most one press is
\* recorded per call of enableInterrupts.
C10_OnePressPerRearm ==
  /\ presses <= 1
  /\ presses >= 1 => (~lowerAttached /\ ~higherAttached)

InitCommunicationDone ==
  pc \notin {"setup", "init_fade", "init_handshake", "init_players", "init_finish"}

\* C11: initCommunication leaves its loop only when tryHandshake has returned
\* true; when it has completed, score is 0, the analog LED is off and the
\* four-bit LEDs are 0b0000 after having shown 0b1100 (player one) or 0b0011
\* (player two).
C11_HandshakeCompletes ==
  /\ [](pc \in {"init_players", "init_finish"} => handshakeDone)
  /\ [](InitCommunicationDone => handshakeDone)
  /\ [](pc = "init_finish" =>
          (analogLED = 0 /\ fourBitLEDs = (IF amPlayerTwo THEN 3 ELSE 12)))
  /\ []((pc = "loop_decide" /\ calls = <<>>) =>
          /\ handshakeDone
          /\ score = 0
          /\ analogLED = 0
          /\ fourBitLEDs = 0
          /\ ledShown = (IF amPlayerTwo THEN 3 ELSE 12))
  /\ [][(pc = "init_handshake" /\ pc' # pc) =>
          (pc' = (IF handshakeDone' THEN "init_players" ELSE "init_fade"))]_vars

C11_Witness ==
  /\ pc = "loop_decide"
  /\ calls = <<>>
  /\ handshakeDone
  /\ amPlayerTwo
  /\ ledShown = 3
  /\ fourBitLEDs = 0

\* the score a round ends with, from the score it began with and its outcome
C12_RoundEndScore(s, r) ==
  IF s + C1_Table[r] >= 80 \/ s + C1_Table[r] <= -80 THEN 0 ELSE s + C1_Table[r]

\* C12: a button handler changes nothing but the two press flags, the press
\* timestamp and the attachment of the interrupts: wherever it preempts the
\* main program, score, currentGame, myNumber and otherNumber (and the
\* program's position) stay as they are, and the score a round ends with
\* depends only on the score it began with and its outcome.
C12_HandlersFrame ==
  /\ [][(presses' = presses + 1) =>
          /\ score' = score
          /\ currentGame' = currentGame
          /\ myNumber' = myNumber
          /\ otherNumber' = otherNumber
          /\ UNCHANGED <<pc, pointVars, roundVars, ledVars, initVars, servoVars,
                         scoreVars, flashVars, millisNow, calls>>]_vars
  /\ [](pc = "loop_flash" => score = C12_RoundEndScore(prevScore, result))

C12_Witness ==
  /\ pc = "score_servo"
  /\ presses = 2
  /\ lastPress = "higher"
  /\ millisAtButtonPress = 1
  /\ currentGame = "LEDFrequency"
  /\ myNumber = 1

\* C13: with the microgame stubs runMicrogame returns GameTied for each of the
\* six known Round Identifiers, so score is 0 in every reachable state, the
\* servo stays at position 90 and handleVictory is never called.
C13_StubsTie ==
  /\ (pc = "loop_clear" /\ currentGame \in KnownGames) => result = "GameTied"
  /\ score = 0
  /\ servoPos = 90
  /\ "handleVictory" \notin Range(calls)
  /\ Victories(fx) = <<>>

C13_Witness ==
  /\ pc = "loop_flash"
  /\ currentGame = "LEDBrightest"
  /\ myNumber > otherNumber
  /\ hist = <<"GameTied", "GameTied">>
  /\ fx = << <<"servo", 90>> >>
  /\ score = 0

\* the effects of handleVictory as the specification lists them
C14_Sequence ==
  << <<"playInstantOfVictorySFX", 1>>,
     <<"whiteLED", 1>>,
     <<"playVictoryJingleSFX", 1>>,
     <<"whiteLED", 0>>,
     <<"playGameOverSFX", 0>>,
     <<"score", 0>>,
     <<"servo", 90>> >>

\* C14: handleVictory runs the same effects in the same order for didWin = true
\* and didWin = false (instant-of-victory cue, white LED HIGH, jingle, white
\* LED LOW, game-over cue, score 0, servo 90) and ends with score 0 and the
\* white LED LOW.
C14_FixedSequence ==
  (Returned /\ Victories(fx) # <<>>) =>
    /\ fx[2][1] = "handleVictory"
    /\ fx[2][2] \in {0, 1}
    /\ SubSeq(fx, 3, Len(fx)) = C14_Sequence
    /\ score = 0
    /\ ~whiteLED
    /\ servoPos = 90

C14_Witness ==
  /\ Returned
  /\ Len(fx) > 2
  /\ fx[2] = <<"handleVictory", 0>>
  /\ SubSeq(fx, 3, Len(fx)) = C14_Sequence
  /\ prevScore = -70

\* C15: whenever updateScore is not executing, score lies strictly between
\* -80 and +80, whatever outcomes have been given to it.
C15_ScoreInsideThresholds ==
  pc = "call" => (-80 < score /\ score < 80)

C15_Witness ==
  /\ Returned
  /\ score = -70
  /\ prevScore = -50

\* C16: flashHigherPlayersLED flashes the white LED three times exactly when
\* myNumber >= otherNumber and otherwise only waits; either way it takes
\* 1500 ms and the white LED is LOW afterwards; the other board, which has the
\* two numbers swapped, flashes too exactly when the numbers are equal.
C16_HigherPlayerFlashes ==
  (pc = "loop_decide" /\ calls # <<>>) =>
    /\ flashes = (IF myNumber >= otherNumber THEN 3 ELSE 0)
    /\ delayed = 1500
    /\ ~whiteLED
    /\ myNumber # otherNumber =>
         ((flashes = 3) # (FlashCount(otherNumber, myNumber) = 3))
    /\ myNumber = otherNumber =>
         (flashes = 3 /\ FlashCount(otherNumber, myNumber) = 3)

C16_Witness ==
  /\ pc = "loop_decide"
  /\ calls # <<>>
  /\ myNumber = otherNumber
  /\ myNumber > 0
  /\ flashes = 3

\* C17: lowerButtonPressed and higherButtonPressed are never both true; once a
\* handler has run, exactly the flag of the handler that ran last is true,
\* through any sequence of presses and calls of enableInterrupts.
C17_OneFlag ==
  /\ ~(lowerButtonPressed /\ higherButtonPressed)
  /\ lastPress = "none" => (~lowerButtonPressed /\ ~higherButtonPressed)
  /\ lastPress = "lower" => (lowerButtonPressed /\ ~higherButtonPressed)
  /\ lastPress = "higher" => (higherButtonPressed /\ ~lowerButtonPressed)

C17_Witness ==
  /\ lastPress = "higher"
  /\ presses = 2
  /\ higherButtonPressed
  /\ ~lowerButtonPressed

\* one period of <<fadeValue, isGoingUpwards>> as the specification describes it
C18_Cycle ==
  << <<1, TRUE>>, <<2, TRUE>>, <<4, TRUE>>, <<8, TRUE>>, <<16, TRUE>>, <<32, TRUE>>,
     <<64, TRUE>>, <<128, TRUE>>, <<255, FALSE>>, <<127, FALSE>>, <<63, FALSE>>,
     <<31, FALSE>>, <<15, FALSE>>, <<7, FALSE>>, <<3, FALSE>>, <<1, FALSE>> >>

\* C18: from fadeValue = 1 going upwards, fadeValue stays in 1..255; each
\* fadeStatusLED call writes the current value and moves one place on in the
\* period 1, 2, 4, .., 128, 255, 127, 63, .., 1, and the direction flips exactly
\* when the doubled (modulo 256) or halved value is 0.
C18_FadeCycle ==
  /\ [](fadeValue \in 1..255)
  /\ [][(pc = "init_fade" /\ pc' = "init_handshake") =>
          /\ analogLED' = fadeValue
          /\ \E i \in 1..Len(C18_Cycle) :
               /\ C18_Cycle[i] = <<fadeValue, isGoingUpwards>>
               /\ C18_Cycle[(i % Len(C18_Cycle)) + 1] = <<fadeValue', isGoingUpwards'>>
          /\ (isGoingUpwards' # isGoingUpwards) <=>
               ((IF isGoingUpwards THEN (fadeValue * 2) % 256 ELSE fadeValue \div 2) = 0)]_vars

C18_Witness ==
  /\ pc = "init_handshake"
  /\ analogLED = 1
  /\ fadeValue = 1
  /\ isGoingUpwards

====
